---- MODULE Spec2Model ----
(***************************************************************************)
(* A model of the git object store of src/src/main.rs and                  *)
(* src/src/sha1hash.rs.  Byte strings are sequences of byte values         *)
(* (0..255); the object store is a map from file path to file bytes.       *)
(* Every command of main() is one action, except write-tree, whose         *)
(* recursion over the directory is modelled step by step (one directory    *)
(* entry per step) so that the order of its writes can be observed.        *)
(***************************************************************************)
EXTENDS Naturals, Integers, Sequences, FiniteSets, TLC

(***************************************************************************)
(* Bounds of the model.                                                    *)
(***************************************************************************)
\* Number of commands run in one behaviour.
MaxCmds == 2
\* Number of input bytes one ZlibEncoder::write call accepts in the model.
\* flate2's encoder compresses into a 32 KiB buffer and reports how much of
\* the input it took, so input that does not compress is taken only in
\* part once it outgrows the buffer; the model scales that capacity down.
ZlibWriteCap == 256
\* Length of the one file larger than ZlibWriteCap.
BigLen == 250

(***************************************************************************)
(* Bytes and text.                                                         *)
(***************************************************************************)
NUL == 0
LF == 10
SP == 32
DOT == 46
SLASH == 47
PLUS == 43
ZERO == 48

Min(a, b) == IF a < b THEN a ELSE b

B_blob == <<98, 108, 111, 98>>
B_tree == <<116, 114, 101, 101>>
B_commit == <<99, 111, 109, 109, 105, 116>>
B_parent == <<112, 97, 114, 101, 110, 116>>
B_author == <<97, 117, 116, 104, 111, 114, 32, 78, 111, 110, 97, 109, 101, 32, 60, 110, 111, 114, 101, 112, 108, 121, 64, 110, 111, 110, 97, 109, 101, 46, 99, 111, 109, 62, 32, 49, 55, 48, 57, 57, 57, 48, 52, 53, 56, 32, 43, 48, 50, 48, 48>>
B_committer == <<99, 111, 109, 109, 105, 116, 116, 101, 114, 32, 78, 111, 110, 97, 109, 101, 32, 60, 110, 111, 114, 101, 112, 108, 121, 64, 110, 111, 110, 97, 109, 101, 46, 99, 111, 109, 62, 32, 49, 55, 48, 57, 57, 57, 48, 52, 53, 56, 32, 43, 48, 50, 48, 48>>
B_objects == <<46, 103, 105, 116, 47, 111, 98, 106, 101, 99, 116, 115, 47>>
HexDigits == <<48, 49, 50, 51, 52, 53, 54, 55, 56, 57, 97, 98, 99, 100, 101, 102>>

\* a.starts_with(p)
StartsWith(a, p) == Len(a) >= Len(p) /\ SubSeq(a, 1, Len(p)) = p

\* Suffix of a from (1-based) position i on.
From(a, i) == SubSeq(a, i, Len(a))

\* Position of the first byte b in a, 0 when there is none.
RECURSIVE FindFrom(_, _, _)
FindFrom(a, b, i) ==
    IF i > Len(a) THEN 0
    ELSE IF a[i] = b THEN i
    ELSE FindFrom(a, b, i + 1)

Find(a, b) == FindFrom(a, b, 1)

\* Byte-wise lexicographic a < b (str::cmp).
RECURSIVE BytesLess(_, _)
BytesLess(a, b) ==
    IF Len(b) = 0 THEN FALSE
    ELSE IF Len(a) = 0 THEN TRUE
    ELSE IF a[1] # b[1] THEN a[1] < b[1]
    ELSE BytesLess(Tail(a), Tail(b))

\* format!("{}", n) of an unsigned integer.
RECURSIVE ToDecimal(_)
ToDecimal(n) ==
    IF n < 10 THEN <<ZERO + n>>
    ELSE Append(ToDecimal(n \div 10), ZERO + (n % 10))

\* format!("{:o}", n).
RECURSIVE ToOctal(_)
ToOctal(n) ==
    IF n < 8 THEN <<ZERO + n>>
    ELSE Append(ToOctal(n \div 8), ZERO + (n % 8))

\* format!("{:06o}", n): zero-padded to width 6.
RECURSIVE PadLeft(_, _)
PadLeft(s, w) == IF Len(s) >= w THEN s ELSE PadLeft(<<ZERO>> \o s, w)

ToOctal6(n) == PadLeft(ToOctal(n), 6)

\* Digits of s read in the given radix, -1 when a byte is no digit of it.
RECURSIVE DigitsValue(_, _, _)
DigitsValue(s, radix, acc) ==
    IF Len(s) = 0 THEN acc
    ELSE IF s[1] < ZERO \/ s[1] >= ZERO + radix THEN -1
    ELSE DigitsValue(Tail(s), radix, acc * radix + (s[1] - ZERO))

\* str::parse::<usize>() and u32::from_str_radix: an optional '+', then at
\* least one digit; -1 stands for Err.  (The model's numbers stay far below
\* the integer width, so the overflow error is not reached.)
ParseUnsigned(s, radix) ==
    LET digits == IF Len(s) > 0 /\ s[1] = PLUS THEN Tail(s) ELSE s
    IN  IF Len(digits) = 0 THEN -1 ELSE DigitsValue(digits, radix, 0)

\* std::str::from_utf8 succeeds; the model's text is ASCII, and a byte of
\* 128 or more stands for an invalid sequence.
IsUtf8(s) == \A i \in 1..Len(s) : s[i] < 128

(***************************************************************************)
(* Sha1Hash (src/src/sha1hash.rs).                                         *)
(***************************************************************************)
\* Width of the digest in bytes.
DigestLen == 20

\* The state of the digest after absorbing data[lo..hi].  SHA-1 itself is
\* replaced by a 24-bit position-weighted sum: deterministic, and free of
\* collisions on the objects of this model (see NoCollision).  The sum is
\* split in halves to keep the evaluation shallow.
RECURSIVE Absorb(_, _, _)
Absorb(data, lo, hi) ==
    IF lo > hi THEN 0
    ELSE IF lo = hi THEN ((data[lo] + 1) * ((lo * lo * 7 + lo * 131 + 1) % 65521)) % 16777216
    ELSE LET mid == (lo + hi) \div 2
         IN  (Absorb(data, lo, mid) + Absorb(data, mid + 1, hi)) % 16777216

\* Sha1Hash::hash: the 20 digest bytes.
Sha1(data) ==
    LET h == (Absorb(data, 1, Len(data)) + 40503 * Len(data)) % 16777216
        b0 == h % 256
        b1 == (h \div 256) % 256
        b2 == (h \div 65536) % 256
    IN  [i \in 1..DigestLen |->
            CASE i % 3 = 1 -> (b0 + 17 * (i \div 3)) % 256
              [] i % 3 = 2 -> (b1 + 29 * (i \div 3)) % 256
              [] OTHER     -> (b2 + 43 * (i \div 3)) % 256]

\* hex::encode (Display for Sha1Hash).
RECURSIVE HexEncode(_)
HexEncode(bytes) ==
    IF Len(bytes) = 0 THEN <<>>
    ELSE <<HexDigits[(bytes[1] \div 16) + 1], HexDigits[(bytes[1] % 16) + 1]>>
            \o HexEncode(Tail(bytes))

\* Value of one hex digit (upper or lower case), -1 for any other byte.
HexVal(c) ==
    IF c >= 48 /\ c <= 57 THEN c - 48
    ELSE IF c >= 97 /\ c <= 102 THEN c - 87
    ELSE IF c >= 65 /\ c <= 70 THEN c - 55
    ELSE -1

IsHex(s) == \A i \in 1..Len(s) : HexVal(s[i]) >= 0

\* hex::decode of a string already known to be of even length and all hex.
RECURSIVE HexBytes(_)
HexBytes(s) ==
    IF Len(s) = 0 THEN <<>>
    ELSE <<HexVal(s[1]) * 16 + HexVal(s[2])>> \o HexBytes(Tail(Tail(s)))

\* FromStr for Sha1Hash.  hex::decode fails on an odd length or a byte that
\* is no hex digit, and that error is returned; copy_from_slice panics when
\* the decoded length is not 20.
FromStr(s) ==
    IF Len(s) % 2 = 1 \/ ~IsHex(s)
        THEN [status |-> "err", err |-> "hex", sha |-> <<>>]
    ELSE IF Len(s) \div 2 # DigestLen
        THEN [status |-> "panic", err |-> "copy_from_slice", sha |-> <<>>]
    ELSE [status |-> "ok", err |-> "", sha |-> HexBytes(s)]

\* filename_from_sha.
filename_from_sha(sha) ==
    LET str == HexEncode(sha)
    IN  B_objects \o SubSeq(str, 1, 2) \o <<SLASH>> \o From(str, 3)

\* directory_from_sha.
directory_from_sha(sha) == B_objects \o SubSeq(HexEncode(sha), 1, 2)

(***************************************************************************)
(* zlib (flate2).  The compressed form is modelled as a stored stream: a   *)
(* two-byte header, the data, and a one-byte check value.  The decoder     *)
(* validates the header and the check value and gives the data back.       *)
(***************************************************************************)
ZlibHeader == <<120, 156>>

\* The check value of data[lo..hi] (standing for zlib's Adler-32).
RECURSIVE CheckSum(_, _, _)
CheckSum(data, lo, hi) ==
    IF lo > hi THEN 1
    ELSE IF lo = hi THEN data[lo] % 251
    ELSE LET mid == (lo + hi) \div 2
         IN  (CheckSum(data, lo, mid) + CheckSum(data, mid + 1, hi)) % 251

ByteSum(data) == CheckSum(data, 1, Len(data))

\* A finished ZlibEncoder stream over data.
Compress(data) == ZlibHeader \o data \o <<ByteSum(data)>>

\* ZlibDecoder over the bytes of a file.
Decompress(file) ==
    IF Len(file) < 3 \/ SubSeq(file, 1, 2) # ZlibHeader
        THEN [ok |-> FALSE, data |-> <<>>]
    ELSE LET data == SubSeq(file, 3, Len(file) - 1)
         IN  IF file[Len(file)] # ByteSum(data)
                 THEN [ok |-> FALSE, data |-> <<>>]
             ELSE [ok |-> TRUE, data |-> data]

\* ZlibEncoder::write(&buf): one call, whose return value (the number of
\* bytes it accepted) write_object discards.
EncoderWrite(buf) == SubSeq(buf, 1, Min(Len(buf), ZlibWriteCap))

\* OpenOptions::new().write(true).create(true).truncate(true): the bytes of
\* the file once the encoder is dropped (its Drop finishes the stream).
FileAfterAppend(existing, written) == existing \o written

FileAfterWrite(existing, written) == written

(***************************************************************************)
(* write_object.                                                           *)
(***************************************************************************)
\* "<kind> <len>\0<content>".
Envelope(kind, content) ==
    kind \o <<SP>> \o ToDecimal(Len(content)) \o <<NUL>> \o content

\* write_object(kind, content, write_to_file) on the store st = [files,
\* dirs]; writable is whether .git/objects accepts new directories and
\* files.  Returns the outcome, the identifier and the store afterwards.
write_object(kind, content, write_to_file, st, writable) ==
    LET buf == Envelope(kind, content)
        sha1 == Sha1(buf)
        directory == directory_from_sha(sha1)
        filename == filename_from_sha(sha1)
        existing == IF filename \in DOMAIN st.files THEN st.files[filename] ELSE <<>>
        bytes == FileAfterWrite(existing, Compress(EncoderWrite(buf)))
    IN  IF ~write_to_file
            THEN [status |-> "ok", err |-> "", sha |-> sha1, st |-> st, fsops |-> 0]
        ELSE IF ~writable
            THEN [status |-> "err", err |-> "io", sha |-> sha1, st |-> st, fsops |-> 1]
        ELSE [status |-> "ok", err |-> "", sha |-> sha1, fsops |-> 2,
              st |-> [files |-> [p \in DOMAIN st.files \cup {filename} |->
                                    IF p = filename THEN bytes ELSE st.files[p]],
                      dirs |-> st.dirs \cup {directory}]]

(***************************************************************************)
(* The working directory.  A path is a sequence of names, <<>> being ".";  *)
(* a node is a file with its content or a directory; readable is whether   *)
(* fs::read (a file) or fs::read_dir (a directory) succeeds on it.         *)
(***************************************************************************)
Name_a == <<97>>
Name_b == <<98>>
Name_c == <<99>>
Name_d == <<100>>
Name_e == <<101>>
Name_a_txt == <<97, 46, 116, 120, 116>>
Name_big == <<98, 105, 103>>
Name_git == <<46, 103, 105, 116>>
Name_env == <<46, 101, 110, 118>>
Name_missing == <<110, 111>>

FileNode(content, readable) ==
    [isDir |-> FALSE, content |-> content, readable |-> readable]

DirNode(readable) == [isDir |-> TRUE, content |-> <<>>, readable |-> readable]

BigContent == [i \in 1..BigLen |-> 33 + ((i * 37) % 90)]

\* Only a.txt, holding "hi\n".
WorkSingle ==
    (<<>> :> DirNode(TRUE)) @@ (<<Name_git>> :> DirNode(TRUE))
    @@ (<<Name_a_txt>> :> FileNode(<<104, 105, 10>>, TRUE))

\* A file, a subdirectory with a file, and a dot-file.
WorkNested ==
    (<<>> :> DirNode(TRUE)) @@ (<<Name_git>> :> DirNode(TRUE))
    @@ (<<Name_b>> :> FileNode(<<120>>, TRUE))
    @@ (<<Name_a>> :> DirNode(TRUE))
    @@ (<<Name_a, Name_c>> :> FileNode(<<121>>, TRUE))
    @@ (<<Name_env>> :> FileNode(<<115>>, TRUE))

\* An unreadable file and an unreadable directory beside a readable
\* subdirectory.
WorkUnreadable ==
    (<<>> :> DirNode(TRUE)) @@ (<<Name_git>> :> DirNode(TRUE))
    @@ (<<Name_b>> :> FileNode(<<112>>, FALSE))
    @@ (<<Name_c>> :> DirNode(FALSE))
    @@ (<<Name_d>> :> DirNode(TRUE))
    @@ (<<Name_d, Name_e>> :> FileNode(<<113>>, TRUE))

\* An unreadable file inside a subdirectory, beside a large file.
WorkDeep ==
    (<<>> :> DirNode(TRUE)) @@ (<<Name_git>> :> DirNode(TRUE))
    @@ (<<Name_big>> :> FileNode(BigContent, TRUE))
    @@ (<<Name_d>> :> DirNode(TRUE))
    @@ (<<Name_d, Name_e>> :> FileNode(<<113>>, FALSE))

Workdirs == {WorkSingle, WorkNested, WorkUnreadable, WorkDeep}

\* The direct children of directory p in f.
Children(f, p) ==
    {q \in DOMAIN f : Len(q) = Len(p) + 1 /\ SubSeq(q, 1, Len(p)) = p}

(***************************************************************************)
(* Objects found in .git/objects before the program runs (written by       *)
(* another tool, or damaged), given by their decompressed bytes.           *)
(***************************************************************************)
RawId == [i \in 1..DigestLen |-> 16 + i]

\* "blob 0x": a header that ends with the stream, no NUL.
ForeignBlobNoNul == <<98, 108, 111, 98, 32, 48, 120>>
\* "tree 0x": the same for a tree.
ForeignTreeNoNul == <<116, 114, 101, 101, 32, 48, 120>>
\* "tree 5\0" followed by one entry of 29 bytes and a second entry.
ForeignTreeShort ==
    <<116, 114, 101, 101, 32, 53, 0>>
    \o <<49, 48, 48, 54, 52, 52, 32, 97, 0>> \o RawId
    \o <<49, 48, 48, 54, 52, 52, 32, 98, 0>> \o RawId
\* "tree 57\0": a directory entry "z" stored before a file entry "a".
ForeignTreeUnsorted ==
    <<116, 114, 101, 101, 32, 53, 55, 0>>
    \o <<52, 48, 48, 48, 48, 32, 122, 0>> \o RawId
    \o <<49, 48, 48, 54, 52, 52, 32, 97, 0>> \o RawId
\* A stream that ends at once.
ForeignEmpty == <<>>

ForeignObjects ==
    {ForeignBlobNoNul, ForeignTreeNoNul, ForeignTreeShort, ForeignTreeUnsorted,
     ForeignEmpty}

\* A file that is no zlib stream.
CorruptFile == <<1, 2, 3>>
CorruptId == [i \in 1..DigestLen |-> 200 + i]

InitialFiles ==
    [p \in {filename_from_sha(Sha1(o)) : o \in ForeignObjects}
           \cup {filename_from_sha(CorruptId)} |->
        IF p = filename_from_sha(CorruptId) THEN CorruptFile
        ELSE Compress(CHOOSE o \in ForeignObjects : filename_from_sha(Sha1(o)) = p)]

InitialStore ==
    [files |-> InitialFiles,
     dirs |-> {directory_from_sha(Sha1(o)) : o \in ForeignObjects}
                \cup {directory_from_sha(CorruptId)}]

(***************************************************************************)
(* Reading an object: cat-file and ls-tree.                                *)
(***************************************************************************)
\* What a command leaves behind: its outcome (ok, err: an Err returned from
\* main, panic), what it printed, how many times it went to the filesystem,
\* the decompressed bytes it read, and the ls-tree byte counter.
Result ==
    [status |-> "ok", err |-> "", out |-> <<>>, fsops |-> 0,
     didRead |-> FALSE, read |-> <<>>, overshoot |-> FALSE, left |-> 0]

Failed(r, status, err) == [r EXCEPT !.status = status, !.err = err]

\* BufReader::read_until(0, buf) on the rest of the stream: the number of
\* bytes put in buf (up to and including the NUL, or all that is left).
ReadUntilNul(rest) ==
    LET n == Find(rest, NUL) IN IF n = 0 THEN Len(rest) ELSE n

\* The cat-file arm of main.
cat_file(files, text) ==
    LET parsed == FromStr(text)
        filename == filename_from_sha(parsed.sha)
    IN  IF parsed.status # "ok" THEN Failed(Result, parsed.status, parsed.err)
        ELSE IF filename \notin DOMAIN files
            THEN Failed([Result EXCEPT !.fsops = 1], "err", "notfound")
        ELSE
        LET z == Decompress(files[filename])
            r == [Result EXCEPT !.fsops = 1, !.didRead = z.ok, !.read = z.data]
            n == ReadUntilNul(z.data)
            text1 == SubSeq(z.data, 1, n - 1)
            size == ParseUnsigned(From(text1, Len(B_blob) + 2), 10)
            rest == From(z.data, n + 1)
        IN  IF ~z.ok THEN Failed(r, "err", "io")
            \* buf.len() - 1 on an empty buf: an overflow panic, or the
            \* wrapped index is out of range of the slice.
            ELSE IF n = 0 THEN Failed(r, "panic", "index")
            ELSE IF ~IsUtf8(text1) THEN Failed(r, "err", "utf8")
            ELSE IF ~StartsWith(text1, B_blob \o <<SP>>)
                THEN Failed(r, "err", "Invalid blob")
            ELSE IF size < 0 THEN Failed(r, "err", "parse")
            ELSE IF Len(rest) < size THEN Failed(r, "err", "eof")
            ELSE IF ~IsUtf8(SubSeq(rest, 1, size)) THEN Failed(r, "err", "utf8")
            ELSE [r EXCEPT !.out = SubSeq(rest, 1, size)]

\* The directory mode, 0o40000, and the file mode, 0o100644.
ModeDir == 16384
ModeFile == 33188

\* The line ls-tree prints for one entry.
ListingLine(mode, name, sha, name_only) ==
    IF name_only THEN name \o <<LF>>
    ELSE ToOctal6(mode) \o <<SP>>
            \o (IF mode = ModeDir THEN B_tree ELSE B_blob)
            \o <<SP>> \o name \o <<SP>> \o sha \o <<LF>>

\* The entry loop of ls-tree: rest is what is left of the stream, r.left the
\* counter `left`, r.out what was printed so far.  `left` is a usize: in a
\* build with overflow checks `left -= read + 20` panics when it would go
\* below zero, without them it wraps.  A wrapped value 2^64 - k is written
\* -k here; the loop test `left > 0` is true of it.
RECURSIVE ls_tree_loop(_, _, _, _)
ls_tree_loop(rest, r, name_only, bld) ==
    IF r.left = 0 THEN r
    ELSE
    LET read == ReadUntilNul(rest)
        seg == SubSeq(rest, 1, read - 1)
        sp == Find(seg, SP)
        mode == ParseUnsigned(SubSeq(seg, 1, sp - 1), 8)
        name == From(seg, sp + 1)
        after == From(rest, read + 1)
        sha == HexEncode(SubSeq(after, 1, DigestLen))
        printed == [r EXCEPT !.out = @ \o ListingLine(mode, name, sha, name_only)]
        over == r.left > 0 /\ read + DigestLen > r.left
    IN  IF read = 0 THEN Failed(r, "panic", "index")
        ELSE IF ~IsUtf8(seg) THEN Failed(r, "err", "utf8")
        ELSE IF sp = 0 THEN Failed(r, "err", "Invalid tree entry")
        ELSE IF mode < 0 THEN Failed(r, "err", "parse")
        ELSE IF Len(after) < DigestLen THEN Failed(r, "err", "eof")
        ELSE IF over /\ bld = "debug"
            THEN Failed([printed EXCEPT !.overshoot = TRUE], "panic", "overflow")
        ELSE ls_tree_loop(From(after, DigestLen + 1),
                          [printed EXCEPT !.left = @ - (read + DigestLen),
                                          !.overshoot = @ \/ over],
                          name_only, bld)

\* The ls-tree arm of main.
ls_tree(files, text, name_only, bld) ==
    LET parsed == FromStr(text)
        filename == filename_from_sha(parsed.sha)
    IN  IF parsed.status # "ok" THEN Failed(Result, parsed.status, parsed.err)
        ELSE IF filename \notin DOMAIN files
            THEN Failed([Result EXCEPT !.fsops = 1], "err", "notfound")
        ELSE
        LET z == Decompress(files[filename])
            r == [Result EXCEPT !.fsops = 1, !.didRead = z.ok, !.read = z.data]
            read == ReadUntilNul(z.data)
            str == SubSeq(z.data, 1, read - 1)
            size == ParseUnsigned(From(str, Len(B_tree) + 2), 10)
        IN  IF ~z.ok THEN Failed(r, "err", "io")
            ELSE IF read = 0 THEN Failed(r, "panic", "index")
            ELSE IF ~IsUtf8(str) THEN Failed(r, "err", "utf8")
            ELSE IF ~StartsWith(str, B_tree \o <<SP>>)
                THEN Failed(r, "err", "Invalid tree")
            ELSE IF size < 0 THEN Failed(r, "err", "parse")
            ELSE ls_tree_loop(From(z.data, read + 1), [r EXCEPT !.left = size],
                              name_only, bld)

(***************************************************************************)
(* Writing: hash-object, commit-tree, write-tree.                          *)
(***************************************************************************)
\* fs::read(filename): the bytes of a readable regular file.
FsRead(f, path) ==
    IF path \in DOMAIN f /\ ~f[path].isDir /\ f[path].readable
        THEN [status |-> "ok", err |-> "", buf |-> f[path].content]
    ELSE [status |-> "err", err |-> "io", buf |-> <<>>]

\* The `?` operator: whether the outcome r makes the caller return early.
Swallow(r) == FALSE

Propagate(r) == r.status # "ok"

\* hash_object(filename, write_to_file).
hash_object(f, path, write_to_file, st, wr) ==
    LET rd == FsRead(f, path)
        w == write_object(B_blob, rd.buf, write_to_file, st, wr)
    IN  IF Propagate(rd)
            THEN [status |-> rd.status, err |-> rd.err, sha |-> <<>>, st |-> st,
                  fsops |-> 1, wrote |-> FALSE, content |-> <<>>]
        ELSE [status |-> w.status, err |-> w.err, sha |-> w.sha, st |-> w.st,
              fsops |-> 1 + w.fsops, wrote |-> write_to_file, content |-> rd.buf]

\* The payload commit-tree renders with writeln!.
CommitPayloadParentLast(tree_sha, hasParent, parent_sha, message) ==
    B_tree \o <<SP>> \o HexEncode(tree_sha) \o <<LF>>
    \o B_author \o <<LF>>
    \o B_committer \o <<LF>>
    \o (IF hasParent THEN B_parent \o <<SP>> \o HexEncode(parent_sha) \o <<LF>>
        ELSE <<>>)
    \o <<LF>>
    \o message \o <<LF>>

CommitPayload(tree_sha, hasParent, parent_sha, message) ==
    B_tree \o <<SP>> \o HexEncode(tree_sha) \o <<LF>>
    \o (IF hasParent THEN B_parent \o <<SP>> \o HexEncode(parent_sha) \o <<LF>>
        ELSE <<>>)
    \o B_author \o <<LF>>
    \o B_committer \o <<LF>>
    \o <<LF>>
    \o message \o <<LF>>

\* entries.sort_by(|a, b| a.1.cmp(&b.1)): a stable sort by name.
RECURSIVE InsertByName(_, _)
InsertByName(sorted, e) ==
    IF Len(sorted) = 0 THEN <<e>>
    ELSE IF BytesLess(e.name, sorted[1].name) THEN <<e>> \o sorted
    ELSE <<sorted[1]>> \o InsertByName(Tail(sorted), e)

Unsorted(entries) == entries

RECURSIVE SortByName(_)
SortByName(entries) ==
    IF Len(entries) = 0 THEN <<>>
    ELSE InsertByName(SortByName(SubSeq(entries, 1, Len(entries) - 1)),
                      entries[Len(entries)])

\* The bytes write_tree puts in buf for the sorted entries.
RECURSIVE TreePayload(_)
TreePayload(entries) ==
    IF Len(entries) = 0 THEN <<>>
    ELSE ToOctal(entries[1].mode) \o <<SP>> \o entries[1].name \o <<NUL>>
            \o entries[1].sha \o TreePayload(Tail(entries))

\* last_name.starts_with("."): the entry is left out of the tree.
Excluded(last_name) == StartsWith(last_name, <<DOT>>)

(***************************************************************************)
(* State.                                                                  *)
(***************************************************************************)
VARIABLES
    fs,         \* the working directory (never written by the program)
    writable,   \* whether .git/objects accepts writes
    store,      \* .git/objects: [files: path -> bytes, dirs: set of paths]
    last,       \* the last command: its name, arguments and Result
    lastWrite,  \* the write_object(.., true) call of the last step, if any
    persisted,  \* the (kind, payload, sha) write_object stored and returned Ok
    steps,      \* commands started
    stack,      \* write-tree: the frames of the recursion, innermost last
    wtLog,      \* write-tree: what the current run has done, in order
    trees,      \* the trees write-tree has written: (path, payload, sha)
    runs        \* the logs of the write-tree runs that returned Ok

vars ==
    <<fs, writable, store, last, lastWrite, persisted, steps, stack,
      wtLog, trees, runs>>

NoArgs ==
    [text |-> <<>>, path |-> <<>>, flag |-> FALSE, hasParent |-> FALSE,
     parent |-> <<>>, message |-> <<>>, build |-> ""]

NoWrite ==
    [called |-> FALSE, kind |-> <<>>, payload |-> <<>>, sha |-> <<>>,
     status |-> "", prior |-> {}, changed |-> FALSE, touched |-> {}]

\* The record of a write_object(kind, payload, true) call with outcome w:
\* prior holds the identifiers earlier calls returned for the same kind and
\* payload, touched the files the call created or changed.
WriteRecord(kind, payload, w) ==
    [called |-> TRUE, kind |-> kind, payload |-> payload, sha |-> w.sha,
     status |-> w.status,
     prior |-> {o.sha : o \in {x \in persisted : x.kind = kind /\ x.payload = payload}},
     changed |-> w.st # store,
     touched |-> {p \in DOMAIN w.st.files :
                    p \notin DOMAIN store.files \/ w.st.files[p] # store.files[p]}]

Persist(kind, payload, w) ==
    IF w.status = "ok"
        THEN persisted \cup {[kind |-> kind, payload |-> payload, sha |-> w.sha]}
    ELSE persisted

Init ==
    /\ fs \in Workdirs
    /\ writable \in BOOLEAN
    /\ store = InitialStore
    /\ last = [cmd |-> "none", args |-> NoArgs, res |-> Result]
    /\ lastWrite = NoWrite
    /\ persisted = {}
    /\ steps = 0
    /\ stack = <<>>
    /\ wtLog = <<>>
    /\ trees = {}
    /\ runs = {}

\* The binary is built with overflow checks ("debug") or without
\* ("release"); the arithmetic of ls-tree depends on it.
Builds == {"debug", "release"}

\* A command can start: none is running and the bound allows one more.
CanStart == stack = <<>> /\ steps < MaxCmds

(***************************************************************************)
(* Inputs.                                                                 *)
(***************************************************************************)
\* The identifier text of the object stored at path p.
TextOfPath(p) ==
    SubSeq(p, Len(B_objects) + 1, Len(B_objects) + 2) \o From(p, Len(B_objects) + 4)

AbsentText == HexEncode(RawId)
OtherAbsentText == HexEncode([i \in 1..DigestLen |-> 100 + i])

\* "abc" (odd length), "abcd" (hex, too short), "" and 40 characters with a
\* 'g' among them.
InvalidTexts ==
    {<<97, 98, 99>>, <<97, 98, 99, 100>>, <<>>,
     [i \in 1..(2 * DigestLen) |-> IF i = 7 THEN 103 ELSE 97]}

IdTexts == {TextOfPath(p) : p \in DOMAIN store.files} \cup InvalidTexts \cup {AbsentText}

Messages == {<<109>>, <<120, 10, 121>>}

HashPaths == {p \in DOMAIN fs : Len(p) = 1 /\ p # <<Name_git>>} \cup {<<Name_missing>>}

(***************************************************************************)
(* Commands.                                                               *)
(***************************************************************************)
CatFile(text) ==
    /\ CanStart
    /\ last' = [cmd |-> "cat-file", args |-> [NoArgs EXCEPT !.text = text],
                res |-> cat_file(store.files, text)]
    /\ lastWrite' = NoWrite
    /\ steps' = steps + 1
    /\ wtLog' = <<>>
    /\ UNCHANGED <<fs, writable, store, persisted, stack, trees, runs>>

LsTree(text, name_only, bld) ==
    /\ CanStart
    /\ last' = [cmd |-> "ls-tree",
                args |-> [NoArgs EXCEPT !.text = text, !.flag = name_only,
                                        !.build = bld],
                res |-> ls_tree(store.files, text, name_only, bld)]
    /\ lastWrite' = NoWrite
    /\ steps' = steps + 1
    /\ wtLog' = <<>>
    /\ UNCHANGED <<fs, writable, store, persisted, stack, trees, runs>>

HashObject(path, write_to_file) ==
    /\ CanStart
    /\ LET h == hash_object(fs, path, write_to_file, store, writable)
       IN  /\ last' = [cmd |-> "hash-object",
                       args |-> [NoArgs EXCEPT !.path = path, !.flag = write_to_file],
                       res |-> [Result EXCEPT
                                  !.status = h.status, !.err = h.err, !.fsops = h.fsops,
                                  !.out = IF h.status = "ok"
                                            THEN HexEncode(h.sha) \o <<LF>> ELSE <<>>]]
           /\ store' = h.st
           /\ lastWrite' = IF h.wrote THEN WriteRecord(B_blob, h.content, h) ELSE NoWrite
           /\ persisted' = IF h.wrote THEN Persist(B_blob, h.content, h) ELSE persisted
    /\ steps' = steps + 1
    /\ wtLog' = <<>>
    /\ UNCHANGED <<fs, writable, stack, trees, runs>>

CommitTree(tree_text, hasParent, parent_text, message) ==
    /\ CanStart
    /\ LET tree_sha == FromStr(tree_text)
           parent == IF hasParent THEN FromStr(parent_text)
                     ELSE [status |-> "ok", err |-> "", sha |-> <<>>]
           payload == CommitPayload(tree_sha.sha, hasParent, parent.sha, message)
           w == write_object(B_commit, payload, TRUE, store, writable)
           args == [NoArgs EXCEPT !.text = tree_text, !.hasParent = hasParent,
                                  !.parent = parent_text, !.message = message]
       IN  IF tree_sha.status # "ok" \/ parent.status # "ok"
               THEN /\ last' = [cmd |-> "commit-tree", args |-> args,
                                res |-> IF tree_sha.status # "ok"
                                          THEN Failed(Result, tree_sha.status, tree_sha.err)
                                        ELSE Failed(Result, parent.status, parent.err)]
                    /\ lastWrite' = NoWrite
                    /\ UNCHANGED <<store, persisted>>
           ELSE /\ last' = [cmd |-> "commit-tree", args |-> args,
                            res |-> [Result EXCEPT
                                       !.status = w.status, !.err = w.err,
                                       !.fsops = w.fsops,
                                       !.out = IF w.status = "ok"
                                                 THEN HexEncode(w.sha) \o <<LF>>
                                               ELSE <<>>]]
                /\ store' = w.st
                /\ lastWrite' = WriteRecord(B_commit, payload, w)
                /\ persisted' = Persist(B_commit, payload, w)
    /\ steps' = steps + 1
    /\ wtLog' = <<>>
    /\ UNCHANGED <<fs, writable, stack, trees, runs>>

(***************************************************************************)
(* write-tree.  write_tree(".") recurses over the directory; a frame of    *)
(* `stack` is one activation: the directory, the entries read_dir has yet  *)
(* to yield, and the entries pushed so far.  read_dir yields the children  *)
(* in an order of the filesystem's choosing.                               *)
(***************************************************************************)
\* fs::read_dir(path).
ReadDir(f, path) ==
    IF path \in DOMAIN f /\ f[path].isDir /\ f[path].readable
        THEN [status |-> "ok", err |-> ""]
    ELSE [status |-> "err", err |-> "io"]

Frame(path) == [path |-> path, todo |-> Children(fs, path), entries |-> <<>>]

Top == stack[Len(stack)]

Running == [cmd |-> "write-tree", args |-> NoArgs,
            res |-> [Result EXCEPT !.status = "running"]]

\* An Err reaches main through every activation: the run is over.
Abort(r, path) ==
    /\ stack' = <<>>
    /\ last' = [cmd |-> "write-tree", args |-> NoArgs,
                res |-> Failed([Result EXCEPT !.fsops = 1], r.status, r.err)]
    /\ wtLog' = Append(wtLog, [ev |-> "fail", path |-> path])
    /\ UNCHANGED <<trees, runs>>

\* The write-tree arm of main calls write_tree(".").
WriteTreeStart ==
    /\ CanStart
    /\ steps' = steps + 1
    /\ lastWrite' = NoWrite
    /\ IF Propagate(ReadDir(fs, <<>>))
           THEN /\ stack' = <<>>
                /\ last' = [cmd |-> "write-tree", args |-> NoArgs,
                            res |-> Failed([Result EXCEPT !.fsops = 1], "err", "io")]
                /\ wtLog' = <<[ev |-> "fail", path |-> <<>>]>>
       ELSE /\ stack' = <<Frame(<<>>)>>
            /\ last' = Running
            /\ wtLog' = <<>>
    /\ UNCHANGED <<fs, writable, store, persisted, trees, runs>>

\* One turn of `for entry in dir_entries` in the innermost activation, for
\* the child c that read_dir yields next.
WtEntry(c) ==
    /\ stack # <<>>
    /\ c \in Top.todo
    /\ LET last_name == c[Len(c)]
           rest == [Top EXCEPT !.todo = @ \ {c}]
           rd == ReadDir(fs, c)
           h == hash_object(fs, c, TRUE, store, writable)
       IN  IF Excluded(last_name)
               THEN /\ stack' = [stack EXCEPT ![Len(stack)] = rest]
                    /\ lastWrite' = NoWrite
                    /\ UNCHANGED <<store, persisted, last, wtLog, trees, runs>>
           ELSE IF fs[c].isDir
               THEN /\ lastWrite' = NoWrite
                    /\ UNCHANGED <<store, persisted>>
                    /\ IF Propagate(rd) THEN Abort(rd, c)
                       ELSE /\ stack' = Append([stack EXCEPT ![Len(stack)] = rest],
                                               Frame(c))
                            /\ UNCHANGED <<last, wtLog, trees, runs>>
           ELSE /\ store' = h.st
                /\ lastWrite' = IF h.wrote THEN WriteRecord(B_blob, h.content, h)
                                ELSE NoWrite
                /\ persisted' = IF h.wrote THEN Persist(B_blob, h.content, h)
                                ELSE persisted
                /\ IF Propagate(h) THEN Abort(h, c)
                   ELSE /\ stack' = [stack EXCEPT ![Len(stack)] =
                                        [rest EXCEPT !.entries =
                                            Append(@, [mode |-> ModeFile,
                                                       name |-> last_name,
                                                       sha |-> h.sha])]]
                        /\ wtLog' = Append(wtLog, [ev |-> "blob", path |-> c])
                        /\ UNCHANGED <<last, trees, runs>>
    /\ UNCHANGED <<fs, writable, steps>>

\* The loop of the innermost activation is over: sort, serialize, store the
\* tree and return its identifier to the caller.
WtFinish ==
    /\ stack # <<>>
    /\ Top.todo = {}
    /\ LET sorted == SortByName(Top.entries)
           buf == TreePayload(sorted)
           w == write_object(B_tree, buf, TRUE, store, writable)
           log == Append(wtLog, [ev |-> "tree", path |-> Top.path])
           callers == SubSeq(stack, 1, Len(stack) - 1)
       IN  /\ store' = w.st
           /\ lastWrite' = WriteRecord(B_tree, buf, w)
           /\ persisted' = Persist(B_tree, buf, w)
           /\ IF Propagate(w) THEN Abort(w, Top.path)
              ELSE /\ wtLog' = log
                   /\ trees' = trees \cup
                        {[path |-> Top.path, payload |-> buf, sha |-> w.sha]}
                   /\ IF Len(stack) = 1
                          THEN /\ stack' = <<>>
                               /\ last' = [cmd |-> "write-tree", args |-> NoArgs,
                                           res |-> [Result EXCEPT
                                                      !.fsops = 1,
                                                      !.out = HexEncode(w.sha) \o <<LF>>]]
                               /\ runs' = runs \cup {log}
                      ELSE /\ stack' = [callers EXCEPT ![Len(callers)].entries =
                                           Append(@, [mode |-> ModeDir,
                                                      name |-> Top.path[Len(Top.path)],
                                                      sha |-> w.sha])]
                           /\ UNCHANGED <<last, runs>>
    /\ UNCHANGED <<fs, writable, steps>>

Next ==
    \/ \E text \in IdTexts : CatFile(text)
    \/ \E text \in IdTexts, name_only \in BOOLEAN, bld \in Builds :
          LsTree(text, name_only, bld)
    \/ \E path \in HashPaths, w \in BOOLEAN : HashObject(path, w)
    \/ \E t \in {AbsentText, <<97, 98, 99, 100>>}, m \in Messages :
          \/ CommitTree(t, FALSE, <<>>, m)
          \/ \E pt \in {OtherAbsentText, <<97, 98, 99>>} : CommitTree(t, TRUE, pt, m)
    \/ WriteTreeStart
    \/ \E c \in DOMAIN fs : WtEntry(c)
    \/ WtFinish

Spec == Init /\ [][Next]_vars

(***************************************************************************)
(* Properties.                                                             *)
(***************************************************************************)
\* The digest standing for SHA-1 is free of collisions on the objects the
\* model stores.
NoCollision ==
    \A o1, o2 \in persisted :
        o1.sha = o2.sha => (o1.kind = o2.kind /\ o1.payload = o2.payload)

\* The path of the object whose identifier has the text hex, written out as
\* objects/<id[0:2]>/<id[2:40]> under .git.
PathOfText(hex) ==
    <<46, 103, 105, 116, 47, 111, 98, 106, 101, 99, 116, 115, 47>>
    \o <<hex[1], hex[2]>> \o <<47>> \o [i \in 1..(Len(hex) - 2) |-> hex[i + 2]]

\* The entries of a tree payload, in stored order.
RECURSIVE PayloadEntries(_)
PayloadEntries(payload) ==
    IF Len(payload) = 0 THEN <<>>
    ELSE LET n == Find(payload, 0)
             seg == SubSeq(payload, 1, n - 1)
             sp == Find(seg, 32)
         IN  <<[mode |-> SubSeq(seg, 1, sp - 1), name |-> From(seg, sp + 1),
                sha |-> SubSeq(payload, n + 1, n + 20)]>>
             \o PayloadEntries(From(payload, n + 21))

\* C1: every object write_object stored and returned Ok for is on disk at its
\* path, decompresses to the complete envelope "<kind> <len>\0<payload>", and
\* a blob read back as cat-file reads it gives the payload again.
C1_RoundTrip ==
    \A o \in persisted :
        LET path == PathOfText(HexEncode(o.sha))
            back == cat_file(store.files, HexEncode(o.sha))
        IN  /\ path \in DOMAIN store.files
            /\ Decompress(store.files[path]) =
                 [ok |-> TRUE,
                  data |-> o.kind \o <<32>> \o ToDecimal(Len(o.payload)) \o <<0>>
                             \o o.payload]
            /\ o.kind = B_blob => (back.status = "ok" /\ back.out = o.payload)

\* C2: a persisting write_object of a (kind, payload) written before returns
\* the identifier it returned then and leaves the store as it was; any
\* persisting write creates or changes no file but the one at
\* objects/<id[0:2]>/<id[2:40]>, which exists afterwards.
C2_IdempotentWrite ==
    (lastWrite.called /\ lastWrite.status = "ok") =>
        LET path == PathOfText(HexEncode(lastWrite.sha))
        IN  /\ path \in DOMAIN store.files
            /\ lastWrite.touched \subseteq {path}
            /\ lastWrite.prior # {} =>
                 (lastWrite.prior = {lastWrite.sha} /\ ~lastWrite.changed)

\* C2 witness: a (kind, payload) has been written a second time.
C2_Witness ==
    lastWrite.called /\ lastWrite.status = "ok" /\ lastWrite.prior # {}

\* C3: every tree write-tree stores lists its entries in strictly ascending
\* byte-wise order of name, and the runs over one directory, whatever order
\* read_dir yielded its children in, store the same payload under the same
\* identifier.
C3_TreeOrdering ==
    /\ \A t \in trees :
         LET es == PayloadEntries(t.payload)
         IN  \A i \in 1..(Len(es) - 1) : BytesLess(es[i].name, es[i + 1].name)
    /\ \A t1, t2 \in trees :
         t1.path = t2.path => (t1.payload = t2.payload /\ t1.sha = t2.sha)

\* C3 witness: two runs that met the children in different orders have both
\* stored a root tree of several entries.
C3_Witness ==
    /\ \E l1, l2 \in runs : l1 # l2
    /\ \E t \in trees : t.path = <<>> /\ Len(PayloadEntries(t.payload)) >= 2

\* C4: ls-tree ends successfully only with the consumed bytes equal to the
\* declared length; an entry that takes the count past the declared length
\* makes it fail, and the counter of remaining bytes never goes below zero
\* (never wraps).
C4_StrictLength ==
    last.cmd = "ls-tree" =>
        /\ last.res.status = "ok" => last.res.left = 0
        /\ last.res.overshoot => last.res.status # "ok"
        /\ last.res.left >= 0

\* The listing of stored entries with the fields in the order mode, kind
\* label, identifier, name; the names alone with --name-only.
RECURSIVE Listing(_, _)
Listing(es, name_only) ==
    IF Len(es) = 0 THEN <<>>
    ELSE (IF name_only THEN es[1].name
          ELSE PadLeft(es[1].mode, 6) \o <<32>>
                 \o (IF es[1].mode = <<52, 48, 48, 48, 48>> THEN B_tree ELSE B_blob)
                 \o <<32>> \o HexEncode(es[1].sha) \o <<32>> \o es[1].name)
         \o <<10>> \o Listing(Tail(es), name_only)

\* C5: a successful ls-tree prints one line per entry in stored order, "mode
\* kind identifier name" (kind tree for mode 40000, blob otherwise), and with
\* --name-only the name alone.
C5_ListingFormat ==
    (/\ last.cmd = "ls-tree" /\ last.res.status = "ok" /\ last.res.didRead
     /\ Find(last.res.read, 0) > 0) =>
        last.res.out =
            Listing(PayloadEntries(From(last.res.read, Find(last.res.read, 0) + 1)),
                    last.args.flag)

\* C6: a tree write-tree stores has exactly one entry for each direct child
\* of its directory whose name does not start with ".git", and none for the
\* others.
C6_ExclusionRule ==
    \A t \in trees :
        LET es == PayloadEntries(t.payload)
            kept == {c \in Children(fs, t.path) :
                        ~StartsWith(c[Len(c)], <<46, 103, 105, 116>>)}
        IN  /\ Len(es) = Cardinality(kept)
            /\ {es[i].name : i \in 1..Len(es)} = {c[Len(c)] : c \in kept}

\* Identifier text that is not exactly 40 hexadecimal characters.
InvalidText(text) == Len(text) # 40 \/ \E i \in 1..Len(text) : HexVal(text[i]) < 0

\* C7: cat-file, ls-tree and commit-tree given identifier text that is not
\* exactly 40 hexadecimal characters return a format error (not a not-found
\* error, not a crash) without having gone to the filesystem.
C7_InvalidIdRejected ==
    (/\ last.cmd \in {"cat-file", "ls-tree", "commit-tree"}
     /\ \/ InvalidText(last.args.text)
        \/ last.args.hasParent /\ InvalidText(last.args.parent)) =>
        /\ last.res.status = "err"
        /\ last.res.err = "hex"
        /\ last.res.fsops = 0
        /\ ~lastWrite.called

\* C8: commit-tree with valid identifiers succeeds whether or not they are in
\* the store, and the commit it stores has the payload "tree T\n", then
\* "parent P\n" exactly when a parent was given, then the author line, the
\* committer line, an empty line, and the message with a newline; the
\* identifier printed is the digest of that object.
C8_CommitPayload ==
    (/\ last.cmd = "commit-tree"
     /\ ~InvalidText(last.args.text)
     /\ last.args.hasParent => ~InvalidText(last.args.parent)
     /\ writable) =>
        LET first == <<116, 114, 101, 101, 32>> \o last.args.text \o <<10>>
            second == <<112, 97, 114, 101, 110, 116, 32>> \o last.args.parent \o <<10>>
            tail == B_author \o <<10>> \o B_committer \o <<10, 10>>
                      \o last.args.message \o <<10>>
            payload == lastWrite.payload
            rest == From(payload, Len(first) + 1)
        IN  /\ last.res.status = "ok"
            /\ lastWrite.called /\ lastWrite.kind = B_commit
            /\ StartsWith(payload, first)
            /\ IF last.args.hasParent
                   THEN StartsWith(rest, second) /\ From(rest, Len(second) + 1) = tail
               ELSE rest = tail
            /\ last.res.out =
                 HexEncode(Sha1(B_commit \o <<32>> \o ToDecimal(Len(payload)) \o <<0>>
                                  \o payload)) \o <<10>>
            /\ [kind |-> B_commit, payload |-> payload, sha |-> lastWrite.sha]
                 \in persisted

\* C8 witness: a commit with a parent has been stored, neither the tree nor
\* the parent being in the store.
C8_Witness ==
    /\ last.cmd = "commit-tree" /\ last.res.status = "ok" /\ last.args.hasParent
    /\ PathOfText(last.args.text) \notin DOMAIN store.files
    /\ PathOfText(last.args.parent) \notin DOMAIN store.files

\* C9: a cat-file or ls-tree that read an object whose decompressed bytes
\* hold no NUL byte fails with an error.
C9_HeaderNeedsNul ==
    (/\ last.cmd \in {"cat-file", "ls-tree"}
     /\ last.res.didRead
     /\ Find(last.res.read, 0) = 0) =>
        last.res.status = "err"

\* Path a is path d or one of the directories above it.
IsAncestorOrSelf(a, d) == Len(a) <= Len(d) /\ SubSeq(d, 1, Len(a)) = a

\* C10: in a run of write-tree the tree of a directory is written only after
\* each included child has been processed (a file stored as a blob, a
\* subdirectory's tree written); once a child has failed, the run has
\* returned the error and has written no tree for the directory of that child
\* or for a directory above it.
C10_BottomUp ==
    /\ \A i \in 1..Len(wtLog) :
         wtLog[i].ev = "tree" =>
           /\ \E t \in trees : t.path = wtLog[i].path
           /\ \A c \in Children(fs, wtLog[i].path) :
                ~Excluded(c[Len(c)]) =>
                  \E j \in 1..(i - 1) :
                     /\ wtLog[j].path = c
                     /\ wtLog[j].ev = IF fs[c].isDir THEN "tree" ELSE "blob"
    /\ \A i \in 1..Len(wtLog) :
         wtLog[i].ev = "blob" =>
           \E o \in persisted :
              o.kind = B_blob /\ o.payload = fs[wtLog[i].path].content
    /\ \A i \in 1..Len(wtLog) :
         wtLog[i].ev = "fail" =>
           /\ i = Len(wtLog)
           /\ stack = <<>>
           /\ last.cmd = "write-tree" /\ last.res.status = "err"
           /\ \A j \in 1..Len(wtLog) :
                wtLog[j].ev = "tree" =>
                  ~IsAncestorOrSelf(wtLog[j].path,
                                    SubSeq(wtLog[i].path, 1, Len(wtLog[i].path) - 1))

\* C10 witness: a run has failed on a child after the tree of a sibling
\* subdirectory was written.
C10_Witness ==
    /\ Len(wtLog) > 0
    /\ wtLog[Len(wtLog)].ev = "fail"
    /\ \E j \in 1..Len(wtLog) : wtLog[j].ev = "tree"

====
